---- MODULE Spec2Model ----
(***************************************************************************)
(* Wision hand-gesture controller: the gesture classifier, the gesture     *)
(* temporal state machine, the frame loop that drives them and the pointer *)
(* smoother.                                                               *)
(*                                                                         *)
(* Units.  Angles are whole degrees.  Normalised image distances and       *)
(* coordinates are thousandths (0.05 is 50).  Times are centiseconds       *)
(* (0.15 s is 15).  A landmark set is represented by the measurements the  *)
(* code takes from it (joint angles, distances, offsets); an optional      *)
(* value (Python None or a value) is a sequence of length 0 or 1.          *)
(* Landmark coordinates are thousandths of the image.                      *)
(* Pointer positions are tenths of a pixel, velocities pixels per second,  *)
(* frequencies hundredths of a hertz and filter coefficients thousandths:  *)
(* the floats of the filter are fixed-point numbers, every product being   *)
(* rounded toward zero.                                                    *)
(***************************************************************************)
EXTENDS Integers, Sequences, FiniteSets, TLC

VARIABLES
    landmarks,      \* HandTracker.landmarks: None or <<frame>>
    current_state,  \* GestureRecognizer.current_state: None or <<GestureState>>
    frame_count,    \* GestureRecognizer.frame_count
    result,         \* the Gesture returned by the last recognize() call, None before
    now,            \* the wall clock, time.time()
    query,          \* the last stability/duration query and what it returned
    run_len,        \* length of the current run of identical landmark sets fed
                    \* since a fresh recognizer or a frame of another gesture
    smoother,       \* AdaptiveSmoother: euro_x, euro_y, history, prev_x, prev_y
    smooth_in,      \* the (x, y) of the last smoother call, None before
    smooth_out,     \* what the last smoother call returned, None before
    smooth_calls,   \* number of smoother calls made
    current_mode,       \* ActionController.current_mode
    last_action_time,   \* ActionController.last_action_time, 0 where unset
    mode_switch_time,   \* ActionController.mode_switch_time
    last_finger_pos,    \* ActionController.last_finger_pos
    cursor,             \* pyautogui.position(), whole pixels
    fired,              \* call sites whose action method the last frame called
    effects             \* actions that took effect in the last frame

recVars == <<landmarks, current_state, frame_count, result, query, run_len>>
smVars == <<smoother, smooth_in, smooth_out, smooth_calls>>
acVars == <<current_mode, last_action_time, mode_switch_time, last_finger_pos,
            cursor, fired, effects>>
vars == <<recVars, now, smVars, acVars>>

None == <<>>
Some(x) == <<x>>
Get(o) == o[1]

(***************************************************************************)
(* Program constants                                                       *)
(***************************************************************************)
OK_SIGN_THRESHOLD == 50
PINCH_THRESHOLD == 60
L_SIGN_THUMB_EXTENSION == 120
L_SIGN_WRIST_DISTANCE == 150
ROCK_THUMB_MAX_DIST == 180
ROCK_FINGER_SPREAD == 60
INDEX_UP_TIP_OFFSET == 20
L_SIGN_THUMB_ANGLE == 155
INDEX_UP_JOINT_ANGLE == 140
ROCK_EXTENDED_ANGLE == 120
STABILITY_FRAMES == 3
MIN_GESTURE_DURATION == 15
EXTENDED_ANGLE == 140
CURLED_ANGLE == 150
THUMB_PALM_DISTANCE == 80
ROCK_STRAIGHT_THUMB_ANGLE == 160
ROCK_THUMB_WRIST_DISTANCE == 150
ROCK_THUMB_INDEX_DISTANCE == 120
INDEX_UP_WRIST_DISTANCE == 150

\* MediaPipe landmark indices
WRIST == 0
THUMB_MCP == 2
THUMB_IP == 3
THUMB_TIP == 4
INDEX_MCP == 5
INDEX_PIP == 6
INDEX_DIP == 7
INDEX_TIP == 8
MIDDLE_MCP == 9
RING_MCP == 13
PINKY_MCP == 17
PINKY_TIP == 20

Fingers4 == {"index", "middle", "ring", "pinky"}

Gesture == {"NONE", "OK_SIGN", "OPEN_PALM", "GRAB", "PINCH_MIDDLE", "ROCK_SIGN",
            "CALL_ME", "PEACE_SIGN", "INDEX_UP", "L_SIGN", "RING_CURL",
            "MIDDLE_CURL", "PINKY_CURL"}

(***************************************************************************)
(* HandTracker: finger states and fingertip distances of a frame lm        *)
(***************************************************************************)
\* get_landmark(idx) returns a value for every idx in idxs.  lm.missing is
\* the set of indices whose lookup returns None; HandTracker.get_landmark
\* itself returns None only when there is no landmark set at all, so the
\* frames the tracker produces have lm.missing = {}.
found(lm, idxs) == idxs \cap lm.missing = {}

\* The MCP index of each finger; its PIP, DIP and TIP follow it.
FINGER_MCP == [f \in Fingers4 |->
    CASE f = "index" -> INDEX_MCP [] f = "middle" -> MIDDLE_MCP
      [] f = "ring" -> RING_MCP [] f = "pinky" -> PINKY_MCP]

\* Extended iff both the PIP and the DIP angle exceed 140 degrees.
is_finger_extended(lm, f) ==
    /\ found(lm, FINGER_MCP[f] .. FINGER_MCP[f] + 3)
    /\ lm.pip[f] > EXTENDED_ANGLE /\ lm.dip[f] > EXTENDED_ANGLE

\* Curled iff the PIP angle is below 150 degrees.
is_finger_curled(lm, f) ==
    /\ found(lm, FINGER_MCP[f] .. FINGER_MCP[f] + 2)
    /\ lm.pip[f] < CURLED_ANGLE

is_thumb_extended(lm) ==
    /\ found(lm, {THUMB_TIP, THUMB_IP, THUMB_MCP, INDEX_MCP})
    /\ lm.thumb_angle > EXTENDED_ANGLE /\ lm.thumb_to_index_mcp > THUMB_PALM_DISTANCE

get_finger_states(lm) ==
    [f \in Fingers4 \cup {"thumb"} |->
        IF f = "thumb" THEN is_thumb_extended(lm) ELSE is_finger_extended(lm, f)]

get_finger_curl_states(lm) == [f \in Fingers4 |-> is_finger_curled(lm, f)]

\* Every fingertip lookup succeeds in the frames modelled (MissingLookups
\* holds no fingertip), so both keys exist.
get_finger_distances(lm) ==
    [thumb_index |-> lm.thumb_index, thumb_middle |-> lm.thumb_middle]

(***************************************************************************)
(* GestureRecognizer: the rule predicates                                  *)
(***************************************************************************)
is_ok_sign(lm, fingers, distances) ==
    /\ distances.thumb_index < OK_SIGN_THRESHOLD
    /\ fingers["middle"]
    /\ fingers["ring"]
    /\ fingers["pinky"]
    \* distances['thumb_middle'] > distances['thumb_index'] * 1.5
    /\ 2 * distances.thumb_middle > 3 * distances.thumb_index

is_call_me(fingers, curled) ==
    /\ fingers["thumb"]
    /\ fingers["pinky"]
    /\ curled["index"]
    /\ curled["middle"]
    /\ curled["ring"]

is_l_sign(lm, fingers, curled) ==
    LET basic_check == /\ fingers["thumb"]
                       /\ fingers["index"]
                       /\ curled["middle"]
                       /\ curled["ring"]
                       /\ curled["pinky"]
    IN  IF ~basic_check THEN FALSE
        ELSE IF ~found(lm, {THUMB_TIP, THUMB_IP, THUMB_MCP, INDEX_MCP, WRIST})
             THEN basic_check
        ELSE IF lm.thumb_angle2 < L_SIGN_THUMB_ANGLE THEN FALSE
        ELSE IF lm.thumb_to_index_mcp < L_SIGN_THUMB_EXTENSION THEN FALSE
        ELSE IF lm.thumb_to_wrist < L_SIGN_WRIST_DISTANCE THEN FALSE
        ELSE TRUE

is_rock_sign(lm, fingers, curled) ==
    IF ~fingers["index"] \/ ~fingers["pinky"] THEN FALSE
    ELSE IF ~curled["middle"] \/ ~curled["ring"] THEN FALSE
    ELSE IF /\ found(lm, {THUMB_TIP, MIDDLE_MCP})
            /\ lm.thumb_to_middle_mcp > ROCK_THUMB_MAX_DIST THEN FALSE
    ELSE IF /\ found(lm, {THUMB_TIP, THUMB_IP, THUMB_MCP})
            /\ lm.thumb_angle2 > ROCK_STRAIGHT_THUMB_ANGLE
            /\ found(lm, {WRIST, INDEX_MCP})
            /\ lm.thumb_to_wrist > ROCK_THUMB_WRIST_DISTANCE
            /\ lm.thumb_to_index_mcp > ROCK_THUMB_INDEX_DISTANCE THEN FALSE
    ELSE IF /\ found(lm, {INDEX_TIP, PINKY_TIP})
            /\ lm.finger_spread < ROCK_FINGER_SPREAD THEN FALSE
    ELSE IF /\ found(lm, {INDEX_TIP, INDEX_PIP, INDEX_DIP, INDEX_MCP})
            /\ lm.index_pip2 < ROCK_EXTENDED_ANGLE THEN FALSE
    ELSE TRUE

is_pinch_middle(fingers, distances) ==
    /\ distances.thumb_middle < PINCH_THRESHOLD
    /\ distances.thumb_index > distances.thumb_middle

is_peace_sign(fingers, curled) ==
    /\ fingers["index"]
    /\ fingers["middle"]
    /\ curled["ring"]
    /\ curled["pinky"]

is_index_up(lm, fingers) ==
    LET basic_check == /\ fingers["index"]
                       /\ ~fingers["middle"]
                       /\ ~fingers["ring"]
                       /\ ~fingers["pinky"]
        tip_above_mcp == lm.index_tip_dy <= INDEX_UP_TIP_OFFSET
    IN  IF ~basic_check THEN FALSE
        ELSE IF ~found(lm, {INDEX_TIP, INDEX_MCP, INDEX_PIP, INDEX_DIP})
             THEN basic_check
        ELSE IF \/ lm.index_pip2 < INDEX_UP_JOINT_ANGLE
                \/ lm.index_dip2 < INDEX_UP_JOINT_ANGLE THEN FALSE
        ELSE IF /\ found(lm, {WRIST})
                /\ lm.index_tip_to_wrist < INDEX_UP_WRIST_DISTANCE THEN FALSE
        ELSE tip_above_mcp

is_ring_curl(fingers, curled) ==
    /\ fingers["thumb"]
    /\ fingers["index"]
    /\ fingers["middle"]
    /\ curled["ring"]
    /\ fingers["pinky"]

is_middle_curl(fingers, curled) ==
    /\ fingers["thumb"]
    /\ fingers["index"]
    /\ curled["middle"]
    /\ fingers["ring"]
    /\ fingers["pinky"]

is_pinky_curl(fingers, curled) ==
    /\ fingers["thumb"]
    /\ fingers["index"]
    /\ fingers["middle"]
    /\ fingers["ring"]
    /\ curled["pinky"]

\* An open palm that does not look at the thumb.
is_open_palm_four(fingers) == \A f \in Fingers4 : fingers[f]

is_open_palm(fingers) == \A f \in DOMAIN fingers : fingers[f]

\* A grab that needs all four non-thumb fingers curled.
is_grab_all_four(fingers, curled) ==
    Cardinality({f \in Fingers4 : curled[f]}) >= 4

\* A grab that two curled fingers are enough for.
is_grab_two_curled(fingers, curled) ==
    Cardinality({f \in Fingers4 : curled[f]}) >= 2

is_grab(fingers, curled) ==
    Cardinality({f \in Fingers4 : curled[f]}) >= 3

(***************************************************************************)
(* GestureRecognizer.recognize: the priority chain, first match wins       *)
(***************************************************************************)
\* The chain with PEACE_SIGN tried before PINCH_MIDDLE.
classify_peace_first(lm) ==
    LET fingers == get_finger_states(lm)
        curled == get_finger_curl_states(lm)
        distances == get_finger_distances(lm)
    IN  IF is_ok_sign(lm, fingers, distances) THEN "OK_SIGN"
        ELSE IF is_call_me(fingers, curled) THEN "CALL_ME"
        ELSE IF is_l_sign(lm, fingers, curled) THEN "L_SIGN"
        ELSE IF is_rock_sign(lm, fingers, curled) THEN "ROCK_SIGN"
        ELSE IF is_peace_sign(fingers, curled) THEN "PEACE_SIGN"
        ELSE IF is_pinch_middle(fingers, distances) THEN "PINCH_MIDDLE"
        ELSE IF is_ring_curl(fingers, curled) THEN "RING_CURL"
        ELSE IF is_middle_curl(fingers, curled) THEN "MIDDLE_CURL"
        ELSE IF is_pinky_curl(fingers, curled) THEN "PINKY_CURL"
        ELSE IF is_open_palm(fingers) THEN "OPEN_PALM"
        ELSE IF is_index_up(lm, fingers) THEN "INDEX_UP"
        ELSE IF is_grab(fingers, curled) THEN "GRAB"
        ELSE "NONE"

classify(lm) ==
    LET fingers == get_finger_states(lm)
        curled == get_finger_curl_states(lm)
        distances == get_finger_distances(lm)
    IN  IF is_ok_sign(lm, fingers, distances) THEN "OK_SIGN"
        ELSE IF is_call_me(fingers, curled) THEN "CALL_ME"
        ELSE IF is_l_sign(lm, fingers, curled) THEN "L_SIGN"
        ELSE IF is_rock_sign(lm, fingers, curled) THEN "ROCK_SIGN"
        ELSE IF is_pinch_middle(fingers, distances) THEN "PINCH_MIDDLE"
        ELSE IF is_peace_sign(fingers, curled) THEN "PEACE_SIGN"
        ELSE IF is_ring_curl(fingers, curled) THEN "RING_CURL"
        ELSE IF is_middle_curl(fingers, curled) THEN "MIDDLE_CURL"
        ELSE IF is_pinky_curl(fingers, curled) THEN "PINKY_CURL"
        ELSE IF is_open_palm(fingers) THEN "OPEN_PALM"
        ELSE IF is_index_up(lm, fingers) THEN "INDEX_UP"
        ELSE IF is_grab(fingers, curled) THEN "GRAB"
        ELSE "NONE"

\* A recognize() that takes a missing hand for a fist.
recognize_gesture_fist_default(lmo) ==
    IF lmo = None THEN "GRAB" ELSE classify(Get(lmo))

\* The gesture recognize() passes to _update_state for tracker.landmarks = lmo.
recognize_gesture(lmo) == IF lmo = None THEN "NONE" ELSE classify(Get(lmo))

(***************************************************************************)
(* Gesture temporal state machine                                          *)
(***************************************************************************)
GestureState(g, t, n) == [gesture |-> g, start_time |-> t, stable_frames |-> n]

\* A transition that keeps the replaced state's start_time.
update_state_stale_start(st, gesture, t) ==
    IF st = None THEN Some(GestureState(gesture, t, 1))
    ELSE IF Get(st).gesture # gesture
    THEN Some(GestureState(gesture, Get(st).start_time, 1))
    ELSE Some([Get(st) EXCEPT !.stable_frames = @ + 1])

\* A fresh state that counts its first frame as 0.
update_state_from_zero(st, gesture, t) ==
    IF st = None \/ Get(st).gesture # gesture
    THEN Some(GestureState(gesture, t, 0))
    ELSE Some([Get(st) EXCEPT !.stable_frames = @ + 1])

\* An update that stamps the state with the clock on every frame.
update_state_restamp(st, gesture, t) ==
    IF st = None \/ Get(st).gesture # gesture
    THEN Some(GestureState(gesture, t, 1))
    ELSE Some([Get(st) EXCEPT !.stable_frames = @ + 1, !.start_time = t])

\* A transition that carries the frame counter of the replaced state over.
update_state_count_carried(st, gesture, t) ==
    IF st = None THEN Some(GestureState(gesture, t, 1))
    ELSE IF Get(st).gesture # gesture
    THEN Some(GestureState(gesture, t, Get(st).stable_frames + 1))
    ELSE Some([Get(st) EXCEPT !.stable_frames = @ + 1])

\* _update_state: the new current_state after a frame classified as gesture
\* at clock reading t.
update_state(st, gesture, t) ==
    IF st = None \/ Get(st).gesture # gesture
    THEN Some(GestureState(gesture, t, 1))
    ELSE Some([Get(st) EXCEPT !.stable_frames = @ + 1])

\* GestureState.duration()
duration(s, t) == t - s.start_time

\* The controller constructs the recognizer without a duration, so
\* min_gesture_duration = None or MIN_GESTURE_DURATION.
min_gesture_duration == MIN_GESTURE_DURATION

\* min_frames = min_frames or STABILITY_FRAMES: None and 0 are both falsy.
is_gesture_stable(st, min_frames) ==
    IF st = None THEN FALSE
    ELSE LET mf == IF min_frames = None \/ Get(min_frames) = 0
                   THEN STABILITY_FRAMES ELSE Get(min_frames)
         IN  Get(st).stable_frames >= mf

\* A duration test that takes a missing state for one held for 0 seconds.
is_gesture_held_for_zero_default(st, t, min_duration) ==
    LET md == IF min_duration # None THEN Get(min_duration) ELSE min_gesture_duration
    IN  (IF st = None THEN 0 ELSE duration(Get(st), t)) >= md

\* min_duration if min_duration is not None else self.min_gesture_duration
is_gesture_held_for(st, t, min_duration) ==
    IF st = None THEN FALSE
    ELSE LET md == IF min_duration # None THEN Get(min_duration)
                   ELSE min_gesture_duration
         IN  duration(Get(st), t) >= md

is_gesture_ready(st, t, min_frames, min_duration) ==
    is_gesture_stable(st, min_frames) /\ is_gesture_held_for(st, t, min_duration)

get_gesture_duration(st, t) == IF st = None THEN 0 ELSE duration(Get(st), t)

(***************************************************************************)
(* smoothing.py: OneEuroFilter and AdaptiveSmoother                        *)
(***************************************************************************)
SCREEN_WIDTH == 1920
SCREEN_HEIGHT == 1080
EURO_FREQ == 6000
EURO_MINCUTOFF == 80
EURO_BETA == 400
EURO_DCUTOFF == 100
DEADZONE == 20
DEADZONE_GAIN == 3
EDGE_MARGIN == 150
EDGE_SMOOTHING_FACTOR == 600
HISTORY_MAXLEN == 10

Abs(a) == IF a < 0 THEN -a ELSE a
Min(a, b) == IF a <= b THEN a ELSE b
Max(a, b) == IF a >= b THEN a ELSE b
\* a * num / den, rounded toward zero
ScaleBy(a, num, den) ==
    IF a >= 0 THEN (a * num) \div den ELSE -(((-a) * num) \div den)

\* OneEuroFilter.__init__ / the state reset() leaves: freq is kept by reset().
EuroFilter(freq) == [x_prev |-> None, dx_prev |-> 0, t_prev |-> None, freq |-> freq]

\* OneEuroFilter._alpha: 1 / (1 + tau / te), tau = 1 / (2 pi cutoff),
\* te = 1 / freq, that is 1 - freq / (2 pi cutoff + freq); 2 pi is 44/7.
alpha(cutoff, freq) ==
    LET w == (44 * cutoff) \div 7
    IN  1000 - ((1000 * freq) \div (w + freq))

\* A filter that falls back to the default frequency when dt <= 0.
euro_call_default_freq(e, x, t) ==
    IF e.x_prev = None
    THEN [out |-> x, filter |-> [e EXCEPT !.x_prev = Some(x), !.t_prev = Some(t)]]
    ELSE LET dt == IF e.t_prev # None THEN t - Get(e.t_prev) ELSE 0
             freq == IF e.t_prev # None /\ dt > 0 THEN 10000 \div dt ELSE EURO_FREQ
             a_d == alpha(EURO_DCUTOFF, freq)
             dx == ScaleBy(x - Get(e.x_prev), freq, 1000)
             dx_hat == ScaleBy(a_d * dx + (1000 - a_d) * e.dx_prev, 1, 1000)
             cutoff == EURO_MINCUTOFF + (EURO_BETA * Abs(dx_hat)) \div 10
             a == alpha(cutoff, freq)
             x_hat == ScaleBy(a * x + (1000 - a) * Get(e.x_prev), 1, 1000)
         IN  [out |-> x_hat,
              filter |-> [x_prev |-> Some(x_hat), dx_prev |-> dx_hat,
                          t_prev |-> Some(t), freq |-> freq]]

\* OneEuroFilter.__call__(x, t): [out, filter] after the call.
euro_call(e, x, t) ==
    IF e.x_prev = None
    THEN [out |-> x, filter |-> [e EXCEPT !.x_prev = Some(x), !.t_prev = Some(t)]]
    ELSE LET dt == IF e.t_prev # None THEN t - Get(e.t_prev) ELSE 0
             freq == IF e.t_prev # None /\ dt > 0 THEN 10000 \div dt ELSE e.freq
             a_d == alpha(EURO_DCUTOFF, freq)
             dx == ScaleBy(x - Get(e.x_prev), freq, 1000)
             dx_hat == ScaleBy(a_d * dx + (1000 - a_d) * e.dx_prev, 1, 1000)
             cutoff == EURO_MINCUTOFF + (EURO_BETA * Abs(dx_hat)) \div 10
             a == alpha(cutoff, freq)
             x_hat == ScaleBy(a * x + (1000 - a) * Get(e.x_prev), 1, 1000)
         IN  [out |-> x_hat,
              filter |-> [x_prev |-> Some(x_hat), dx_prev |-> dx_hat,
                          t_prev |-> Some(t), freq |-> freq]]

\* OneEuroFilter.reset: x_prev, dx_prev and t_prev are cleared.
euro_reset(e) == [e EXCEPT !.x_prev = None, !.dx_prev = 0, !.t_prev = None]

\* AdaptiveSmoother.__init__
NewSmoother ==
    [euro_x |-> EuroFilter(EURO_FREQ), euro_y |-> EuroFilter(EURO_FREQ),
     history |-> <<>>, prev_x |-> None, prev_y |-> None]

\* AdaptiveSmoother._is_near_edge: (is_near_edge, smoothing_factor)
is_near_edge(x, y) ==
    LET norm_x == ScaleBy(x, 100, SCREEN_WIDTH)
        norm_y == ScaleBy(y, 100, SCREEN_HEIGHT)
        edge_dist_x == Min(norm_x, 1000 - norm_x)
        edge_dist_y == Min(norm_y, 1000 - norm_y)
        min_edge_dist == Min(edge_dist_x, edge_dist_y)
    IN  IF min_edge_dist < EDGE_MARGIN
        THEN [near |-> TRUE,
              factor |-> EDGE_SMOOTHING_FACTOR
                  + ScaleBy(min_edge_dist, 1000 - EDGE_SMOOTHING_FACTOR, EDGE_MARGIN)]
        ELSE [near |-> FALSE, factor |-> 1000]

\* deque(maxlen=10).append
history_append(h, p) ==
    IF Len(h) < HISTORY_MAXLEN THEN Append(h, p) ELSE Append(Tail(h), p)

\* A smoother without the deadzone step.
smoother_call_no_deadzone(sm, x, y, t) ==
    LET ex == euro_call(sm.euro_x, x, t)
        ey == euro_call(sm.euro_y, y, t)
        has_prev == sm.prev_x # None /\ sm.prev_y # None
        edge == is_near_edge(ex.out, ey.out)
        x_f == IF edge.near /\ has_prev
               THEN Get(sm.prev_x) + ScaleBy(ex.out - Get(sm.prev_x), edge.factor, 1000)
               ELSE ex.out
        y_f == IF edge.near /\ has_prev
               THEN Get(sm.prev_y) + ScaleBy(ey.out - Get(sm.prev_y), edge.factor, 1000)
               ELSE ey.out
    IN  [x |-> x_f, y |-> y_f, edge |-> edge, filtered |-> <<ex.out, ey.out>>,
         edge_at |-> <<ex.out, ey.out>>,
         smoother |-> [euro_x |-> ex.filter, euro_y |-> ey.filter,
                       history |-> history_append(sm.history, <<x_f, y_f>>),
                       prev_x |-> Some(x_f), prev_y |-> Some(y_f)]]

\* AdaptiveSmoother.__call__(x, y) at clock t: [x, y, smoother] after the call.
smoother_call(sm, x, y, t) ==
    LET ex == euro_call(sm.euro_x, x, t)
        ey == euro_call(sm.euro_y, y, t)
        has_prev == sm.prev_x # None /\ sm.prev_y # None
        x_dz == IF has_prev /\ Abs(ex.out - Get(sm.prev_x)) < DEADZONE
                THEN Get(sm.prev_x) + ScaleBy(ex.out - Get(sm.prev_x), DEADZONE_GAIN, 10)
                ELSE ex.out
        y_dz == IF has_prev /\ Abs(ey.out - Get(sm.prev_y)) < DEADZONE
                THEN Get(sm.prev_y) + ScaleBy(ey.out - Get(sm.prev_y), DEADZONE_GAIN, 10)
                ELSE ey.out
        edge == is_near_edge(x_dz, y_dz)
        x_f == IF edge.near /\ has_prev
               THEN Get(sm.prev_x) + ScaleBy(x_dz - Get(sm.prev_x), edge.factor, 1000)
               ELSE x_dz
        y_f == IF edge.near /\ has_prev
               THEN Get(sm.prev_y) + ScaleBy(y_dz - Get(sm.prev_y), edge.factor, 1000)
               ELSE y_dz
    IN  [x |-> x_f, y |-> y_f, edge |-> edge, filtered |-> <<ex.out, ey.out>>,
         edge_at |-> <<x_dz, y_dz>>,
         smoother |-> [euro_x |-> ex.filter, euro_y |-> ey.filter,
                       history |-> history_append(sm.history, <<x_f, y_f>>),
                       prev_x |-> Some(x_f), prev_y |-> Some(y_f)]]

\* A reset that leaves the y-axis filter as it was.
smoother_reset_x_only(sm) ==
    [euro_x |-> euro_reset(sm.euro_x), euro_y |-> sm.euro_y,
     history |-> <<>>, prev_x |-> None, prev_y |-> None]

\* AdaptiveSmoother.reset
smoother_reset(sm) ==
    [euro_x |-> euro_reset(sm.euro_x), euro_y |-> euro_reset(sm.euro_y),
     history |-> <<>>, prev_x |-> None, prev_y |-> None]

(***************************************************************************)
(* actions.py: ActionController                                            *)
(***************************************************************************)
MODE_ORDER == <<"CURSOR", "SCROLL", "WINDOW", "MEDIA">>
MODE_SWITCH_COOLDOWN == 100
CURSOR_SENSITIVITY == 25
SCROLL_UP_ANGLE == 25
SCROLL_DOWN_ANGLE == 65

cooldowns ==
    [MODE_SWITCH |-> 80, LEFT_CLICK |-> 50, RIGHT_CLICK |-> 70,
     DOUBLE_CLICK |-> 60, MIDDLE_CLICK |-> 50, MAXIMIZE |-> 80, MINIMIZE |-> 80,
     CLOSE |-> 100, SWITCH_WINDOW |-> 50, SHOW_DESKTOP |-> 100,
     SCREENSHOT |-> 150, PLAY_PAUSE |-> 50, NEXT_TRACK |-> 50,
     PREV_TRACK |-> 50, VOLUME_UP |-> 10, VOLUME_DOWN |-> 10, MUTE |-> 50]

\* The action methods that return early while is_in_mode_switch_cooldown().
ModeGuarded ==
    {"MAXIMIZE", "MINIMIZE", "CLOSE", "SWITCH_WINDOW", "SHOW_DESKTOP",
     "SCREENSHOT", "PLAY_PAUSE", "NEXT_TRACK", "PREV_TRACK", "VOLUME_UP",
     "VOLUME_DOWN", "MUTE"}

\* A cooldown test that lets a call through at half the cooldown.
can_perform_action_half(lat, action, t) ==
    action \notin DOMAIN cooldowns \/ 2 * (t - lat[action]) >= cooldowns[action]

can_perform_action(lat, action, t) ==
    action \notin DOMAIN cooldowns \/ t - lat[action] >= cooldowns[action]

is_in_mode_switch_cooldown(mst, t) == t - mst < MODE_SWITCH_COOLDOWN

\* A rotation that stops at the last mode instead of wrapping.
next_mode_no_wrap(mode) ==
    LET current_idx == CHOOSE i \in 1..Len(MODE_ORDER) : MODE_ORDER[i] = mode
    IN  MODE_ORDER[Min(current_idx + 1, Len(MODE_ORDER))]

next_mode(mode) ==
    LET current_idx == CHOOSE i \in 1..Len(MODE_ORDER) : MODE_ORDER[i] = mode
    IN  MODE_ORDER[(current_idx % Len(MODE_ORDER)) + 1]

\* scroll_by_angle: the clicks pyautogui.scroll is called with, 0 for no call.
scroll_by_angle(angle) ==
    LET abs_angle == Abs(angle)
    IN  IF abs_angle < SCROLL_UP_ANGLE
        THEN Min(((SCROLL_UP_ANGLE - abs_angle) \div 5) + 1, 5)
        ELSE IF abs_angle > SCROLL_DOWN_ANGLE
        THEN -Min(((abs_angle - SCROLL_DOWN_ANGLE) \div 5) + 1, 5)
        ELSE 0

\* Whether calling the method of `action` at clock t has its effect: switch_mode
\* makes no OS call; the click methods check their cooldown only; the window
\* and media methods also return early in the mode-switch window; a raising
\* OS call (os_ok false) is swallowed and nothing is recorded.
performs(action, lat, mst, t, os_ok, angle) ==
    CASE action = "MODE_SWITCH" -> can_perform_action(lat, action, t)
      [] action = "SCROLL" -> scroll_by_angle(angle) # 0
      [] action \in ModeGuarded ->
            /\ can_perform_action(lat, action, t)
            /\ ~is_in_mode_switch_cooldown(mst, t)
            /\ os_ok
      [] OTHER -> can_perform_action(lat, action, t) /\ os_ok

\* A reset that keeps the relative-motion reference.
reset_smoother_keep_reference(sm, lfp) ==
    [smoother |-> smoother_reset(sm), last_finger_pos |-> lfp]

\* ActionController.reset_smoother
reset_smoother(sm, lfp) ==
    [smoother |-> smoother_reset(sm), last_finger_pos |-> None]

\* move_cursor_relative, past the first-call return: the target handed to the
\* smoother for finger position pos, reference ref and pointer at cur.
relative_target(pos, ref, cur) ==
    <<cur[1] * 10 + ScaleBy((pos[1] - ref[1]) * SCREEN_WIDTH, CURSOR_SENSITIVITY, 1000),
      cur[2] * 10 + ScaleBy((pos[2] - ref[2]) * SCREEN_HEIGHT, CURSOR_SENSITIVITY, 1000)>>

\* The clamp to the screen and int() of move_cursor_relative.
clamp_to_screen(x, y) ==
    <<Max(0, Min((SCREEN_WIDTH - 1) * 10, x)) \div 10,
      Max(0, Min((SCREEN_HEIGHT - 1) * 10, y)) \div 10>>

(***************************************************************************)
(* controller.py: HandGestureController                                    *)
(***************************************************************************)
\* A gated call site: the action method it calls and the arguments of its
\* gate; min_frames is None where the site calls is_gesture_held_for only.
Site(action, min_frames, min_duration) ==
    [action |-> action, min_frames |-> min_frames, min_duration |-> min_duration]

ModeSwitchSite == Site("MODE_SWITCH", Some(5), 30)

handle_cursor_movement(gesture) ==
    IF gesture = "L_SIGN" THEN {Site("LEFT_CLICK", Some(2), 80)} ELSE {}

handle_cursor_mode(gesture) ==
    handle_cursor_movement(gesture) \cup
    CASE gesture = "PINCH_MIDDLE" -> {Site("LEFT_CLICK", Some(3), 35)}
      [] gesture = "ROCK_SIGN" -> {Site("RIGHT_CLICK", Some(3), 82)}
      [] gesture = "CALL_ME" -> {Site("DOUBLE_CLICK", Some(5), 25)}
      [] gesture = "PEACE_SIGN" -> {Site("SCROLL", None, 10)}
      [] gesture = "RING_CURL" -> {Site("MIDDLE_CLICK", Some(3), 20)}
      [] OTHER -> {}

handle_scroll_mode(gesture) ==
    handle_cursor_movement(gesture) \cup
    CASE gesture = "PEACE_SIGN" -> {Site("SCROLL", None, 10)}
      [] OTHER -> {}

handle_window_mode(gesture) ==
    handle_cursor_movement(gesture) \cup
    CASE gesture = "OPEN_PALM" -> {Site("MAXIMIZE", Some(5), 150)}
      [] gesture = "GRAB" -> {Site("MINIMIZE", Some(5), 150)}
      [] gesture = "ROCK_SIGN" -> {Site("SWITCH_WINDOW", Some(3), 62)}
      [] gesture = "PINCH_MIDDLE" -> {Site("SHOW_DESKTOP", Some(3), 52)}
      [] gesture = "CALL_ME" -> {Site("CLOSE", Some(8), 50)}
      [] gesture = "PEACE_SIGN" -> {Site("SCREENSHOT", Some(5), 83)}
      [] OTHER -> {}

handle_media_mode(gesture) ==
    handle_cursor_movement(gesture) \cup
    CASE gesture = "OPEN_PALM" -> {Site("PLAY_PAUSE", Some(3), 20)}
      [] gesture = "PEACE_SIGN" -> {Site("PREV_TRACK", Some(3), 20)}
      [] gesture = "PINCH_MIDDLE" -> {Site("VOLUME_UP", None, 10)}
      [] gesture = "ROCK_SIGN" -> {Site("VOLUME_DOWN", None, 10)}
      [] gesture = "GRAB" -> {Site("MUTE", Some(5), 30)}
      [] OTHER -> {}

\* The call sites process_frame reaches for the gesture in the mode.
execute_gesture_action(mode, gesture) ==
    CASE gesture = "OK_SIGN" -> {ModeSwitchSite}
      [] gesture = "NONE" -> {}
      [] mode = "CURSOR" -> handle_cursor_mode(gesture)
      [] mode = "SCROLL" -> handle_scroll_mode(gesture)
      [] mode = "WINDOW" -> handle_window_mode(gesture)
      [] mode = "MEDIA" -> handle_media_mode(gesture)

\* The gate in front of the site: is_gesture_ready(min_frames, min_duration),
\* or is_gesture_held_for(min_duration) alone.
site_gate(st, t, site) ==
    IF site.min_frames = None
    THEN is_gesture_held_for(st, t, Some(site.min_duration))
    ELSE is_gesture_ready(st, t, site.min_frames, Some(site.min_duration))

(***************************************************************************)
(* Frames: the landmark sets the model feeds                               *)
(***************************************************************************)
MaxFrames == 4
MaxElapsed == 30
StartTime == 200
\* pyautogui.position() when the program starts: the middle of the screen
StartCursor == <<SCREEN_WIDTH \div 2, SCREEN_HEIGHT \div 2>>

\* (PIP angle, DIP angle) of a non-thumb finger: curled only, extended and
\* curled at once, neither (partial), extended only.
FingerAngles == {<<130, 130>>, <<145, 160>>, <<160, 130>>, <<160, 160>>}

Frame(fa, ta, tim, ti, tm, ta2, tw, tmm, fs, ip2, id2, dy, iw) ==
    [pip |-> [f \in Fingers4 |-> fa[f][1]],
     dip |-> [f \in Fingers4 |-> fa[f][2]],
     thumb_angle |-> ta, thumb_to_index_mcp |-> tim,
     thumb_index |-> ti, thumb_middle |-> tm,
     thumb_angle2 |-> ta2, thumb_to_wrist |-> tw, thumb_to_middle_mcp |-> tmm,
     finger_spread |-> fs, index_pip2 |-> ip2, index_dip2 |-> id2,
     index_tip_dy |-> dy, index_tip_to_wrist |-> iw,
     index_tip |-> <<500, 500>>, peace_angle |-> 0, missing |-> {}]

Pose(i, m, r, p) == [f \in Fingers4 |->
    CASE f = "index" -> i [] f = "middle" -> m [] f = "ring" -> r [] f = "pinky" -> p]

Straight == <<160, 160>>
Bent == <<130, 130>>

OpenPalmFrame ==
    Frame(Pose(Straight, Straight, Straight, Straight),
          170, 180, 100, 100, 170, 200, 200, 100, 160, 160, -100, 300)
OkSignFrame == [OpenPalmFrame EXCEPT !.thumb_index = 20]
PinchFrame == [OpenPalmFrame EXCEPT !.thumb_middle = 40]
PeaceFrame ==
    Frame(Pose(Straight, Straight, Bent, Bent),
          130, 50, 100, 100, 150, 100, 100, 100, 160, 160, -100, 300)
PeaceTiltFrame == [PeaceFrame EXCEPT !.index_tip_dy = -50]
FistFrame ==
    Frame(Pose(Bent, Bent, Bent, Bent),
          130, 50, 100, 100, 150, 100, 100, 30, 110, 110, 50, 100)

SampleFrames == {OpenPalmFrame, OkSignFrame, PinchFrame, PeaceFrame,
                 PeaceTiltFrame, FistFrame}
SampleInputs == {None} \cup {Some(f) : f \in SampleFrames}

TickSteps == {5, 10}
QueryFrames == {None, Some(0), Some(1), Some(3)}
QueryDurations == {None, Some(0), Some(15), Some(30)}

(***************************************************************************)
(* The recognizer driven directly: frames, clock and queries               *)
(***************************************************************************)
Init ==
    /\ landmarks = None
    /\ current_state = None
    /\ frame_count = 0
    /\ result = None
    /\ now = StartTime
    /\ query = None
    /\ run_len = 0
    /\ smoother = NewSmoother
    /\ smooth_in = None
    /\ smooth_out = None
    /\ smooth_calls = 0
    /\ current_mode = "CURSOR"
    /\ last_action_time = [a \in DOMAIN cooldowns |-> 0]
    /\ mode_switch_time = 0
    /\ last_finger_pos = None
    /\ cursor = StartCursor
    /\ fired = {}
    /\ effects = {}

\* A recognize() that holds the previous gesture through a frame no rule matches.
RecognizeWithHold(lmo) ==
    \E gesture \in {IF recognize_gesture(lmo) = "NONE" /\ current_state # None
                    THEN Get(current_state).gesture
                    ELSE recognize_gesture(lmo)} :
        /\ current_state' = update_state(current_state, gesture, now)
        /\ frame_count' = frame_count + 1
        /\ result' = Some(gesture)
        /\ run_len' = IF run_len > 0 /\ lmo = landmarks THEN run_len + 1
                      ELSE IF current_state = None
                              \/ Get(current_state).gesture # gesture THEN 1
                      ELSE 0

\* recognize() on the landmark set lmo the tracker holds.
RecognizeWith(lmo) ==
    \E gesture \in {recognize_gesture(lmo)} :
        /\ current_state' = update_state(current_state, gesture, now)
        /\ frame_count' = frame_count + 1
        /\ result' = Some(gesture)
        /\ run_len' = IF run_len > 0 /\ lmo = landmarks THEN run_len + 1
                      ELSE IF current_state = None
                              \/ Get(current_state).gesture # gesture THEN 1
                      ELSE 0

\* The tracker takes a new frame (a hand or none) and recognize() is called.
Feed ==
    /\ frame_count < MaxFrames
    /\ \E lmo \in SampleInputs :
        /\ landmarks' = lmo
        /\ RecognizeWith(lmo)
    /\ query' = None
    /\ UNCHANGED <<now, smVars, acVars>>

\* A clock under which a gesture held for MIN_GESTURE_DURATION expires.
TickExpiring ==
    /\ \E dt \in TickSteps :
        /\ now + dt <= StartTime + MaxElapsed
        /\ now' = now + dt
        /\ current_state' =
              IF current_state # None
                 /\ duration(Get(current_state), now + dt) >= MIN_GESTURE_DURATION
              THEN None ELSE current_state
    /\ query' = None
    /\ UNCHANGED <<landmarks, frame_count, result, run_len, smVars, acVars>>

Tick ==
    /\ \E dt \in TickSteps :
        /\ now + dt <= StartTime + MaxElapsed
        /\ now' = now + dt
    /\ query' = None
    /\ UNCHANGED <<landmarks, current_state, frame_count, result, run_len, smVars,
                   acVars>>

\* is_gesture_stable / is_gesture_held_for / is_gesture_ready /
\* get_gesture_duration called with (min_frames, min_duration).
Query ==
    /\ \E f \in QueryFrames, d \in QueryDurations :
        query' = Some([min_frames |-> f, min_duration |-> d,
                       stable |-> is_gesture_stable(current_state, f),
                       held |-> is_gesture_held_for(current_state, now, d),
                       ready |-> is_gesture_ready(current_state, now, f, d),
                       duration |-> get_gesture_duration(current_state, now)])
    /\ UNCHANGED <<landmarks, current_state, frame_count, result, now, run_len,
                   smVars, acVars>>

NextRecognizer == Feed \/ Tick \/ Query

SpecRecognizer == Init /\ [][NextRecognizer]_vars

(***************************************************************************)
(* The classifier on every frame of a bounded family                       *)
(***************************************************************************)
MaxRepeat == 1

ThumbAngles == {130, 170}
ThumbToIndexMcp == {50, 120, 180}
ThumbIndex == {0, 40, 100}
ThumbMiddle == {0, 50, 100}
ThumbAngles2 == {150, 155, 170}
ThumbToWrist == {100, 150, 200}
ThumbToMiddleMcp == {100, 200}
FingerSpread == {30, 100}
IndexPip2 == {110, 140, 160}
IndexDip2 == {140, 160}
IndexTipDy == {-100, 20, 50}
IndexTipToWrist == {100, 150, 300}

\* The measurements only _is_l_sign / _is_rock_sign / _is_index_up read vary
\* in the frames whose finger states let those rules read them (their basic
\* checks pass); elsewhere they are held at one value.
ReadsThumbGeometry(fingers, curled) ==
    \/ fingers["thumb"] /\ fingers["index"]
          /\ curled["middle"] /\ curled["ring"] /\ curled["pinky"]
    \/ fingers["index"] /\ fingers["pinky"] /\ curled["middle"] /\ curled["ring"]

ReadsRockGeometry(fingers, curled) ==
    fingers["index"] /\ fingers["pinky"] /\ curled["middle"] /\ curled["ring"]

ReadsIndexGeometry(fingers) ==
    fingers["index"] /\ ~fingers["middle"] /\ ~fingers["ring"] /\ ~fingers["pinky"]

\* The tracker holds the frame Frame(fa, ta, tim, ...) of the family.
HoldsFrameOf(fa, ta, tim) ==
    LET base == Frame(fa, ta, tim, 100, 100, 150, 100, 100, 100, 160, 160, -100, 300)
        fingers == get_finger_states(base)
        curled == get_finger_curl_states(base)
        tg == ReadsThumbGeometry(fingers, curled)
        rg == ReadsRockGeometry(fingers, curled)
        ig == ReadsIndexGeometry(fingers)
    IN  \E ti \in ThumbIndex, tm \in ThumbMiddle,
           ta2 \in IF tg THEN ThumbAngles2 ELSE {150},
           tw \in IF tg THEN ThumbToWrist ELSE {100},
           tmm \in IF rg THEN ThumbToMiddleMcp ELSE {100},
           fs \in IF rg THEN FingerSpread ELSE {100},
           ip2 \in IF rg \/ ig THEN IndexPip2 ELSE {160},
           id2 \in IF ig THEN IndexDip2 ELSE {160},
           dy \in IF ig THEN IndexTipDy ELSE {-100},
           iw \in IF ig THEN IndexTipToWrist ELSE {300} :
        landmarks = Some(Frame(fa, ta, tim, ti, tm, ta2, tw, tmm, fs, ip2, id2, dy, iw))

\* A canonical open palm: every joint angle 180 degrees, the thumb tip tim
\* from the index MCP, ti from the index tip and tm from the middle tip.
CanonicalOpenPalm(tim, ti, tm) ==
    Frame([f \in Fingers4 |-> <<180, 180>>],
          180, tim, ti, tm, 180, 200, 200, 100, 180, 180, -100, 300)

PalmThumbToIndexMcp == {81, 120, 180}
PalmThumbIndex == {50, 60, 100}
PalmThumbMiddle == {60, 100}

InitClassify ==
    /\ \/ \E fa \in [Fingers4 -> FingerAngles],
             ta \in ThumbAngles, tim \in ThumbToIndexMcp : HoldsFrameOf(fa, ta, tim)
       \/ \E tim \in PalmThumbToIndexMcp, ti \in PalmThumbIndex,
             tm \in PalmThumbMiddle :
                landmarks = Some(CanonicalOpenPalm(tim, ti, tm))
    /\ current_state = None
    /\ frame_count = 0
    /\ result = None
    /\ now = StartTime
    /\ query = None
    /\ run_len = 0
    /\ smoother = NewSmoother
    /\ smooth_in = None
    /\ smooth_out = None
    /\ smooth_calls = 0
    /\ current_mode = "CURSOR"
    /\ last_action_time = [a \in DOMAIN cooldowns |-> 0]
    /\ mode_switch_time = 0
    /\ last_finger_pos = None
    /\ cursor = StartCursor
    /\ fired = {}
    /\ effects = {}

\* recognize() on the frame the tracker holds.
Recognize ==
    /\ frame_count < MaxRepeat
    /\ RecognizeWith(landmarks)
    /\ query' = None
    /\ UNCHANGED <<landmarks, now, smVars, acVars>>

NextClassify == Recognize

SpecClassify == InitClassify /\ [][NextClassify]_vars

(***************************************************************************)
(* The classifier on frames where single landmark lookups return None      *)
(***************************************************************************)
\* The lookups that may return None: the wrist, a thumb joint, a finger joint.
MissingLookups == {WRIST, THUMB_IP, INDEX_MCP}

\* Index alone straight, and index and pinky straight.
LookupPoses == {Pose(Straight, Bent, Bent, Bent), Pose(Straight, Bent, Bent, Straight)}

InitLookup ==
    /\ \E fa \in LookupPoses, ta \in ThumbAngles, tim \in ThumbToIndexMcp,
          ta2 \in ThumbAngles2, tw \in ThumbToWrist, iw \in IndexTipToWrist,
          m \in SUBSET MissingLookups :
            landmarks = Some([Frame(fa, ta, tim, 100, 100, ta2, tw, 100, 100,
                                    160, 160, -100, iw) EXCEPT !.missing = m])
    /\ current_state = None
    /\ frame_count = 0
    /\ result = None
    /\ now = StartTime
    /\ query = None
    /\ run_len = 0
    /\ smoother = NewSmoother
    /\ smooth_in = None
    /\ smooth_out = None
    /\ smooth_calls = 0
    /\ current_mode = "CURSOR"
    /\ last_action_time = [a \in DOMAIN cooldowns |-> 0]
    /\ mode_switch_time = 0
    /\ last_finger_pos = None
    /\ cursor = StartCursor
    /\ fired = {}
    /\ effects = {}

SpecLookup == InitLookup /\ [][NextClassify]_vars

(***************************************************************************)
(* The smoother driven directly: calls, resets and the clock               *)
(***************************************************************************)
MaxCalls == 3

SmootherXs == {0, 9600, 9610}
SmootherYs == {50, 5400}

\* AdaptiveSmoother.__call__(x, y); time.time() is read inside the call.
SmoothCall ==
    /\ smooth_calls < MaxCalls
    /\ \E x \in SmootherXs, y \in SmootherYs :
        \E r \in {smoother_call(smoother, x, y, now)} :
            /\ smoother' = r.smoother
            /\ smooth_in' = Some(<<x, y>>)
            /\ smooth_out' = Some(<<r.x, r.y>>)
    /\ smooth_calls' = smooth_calls + 1
    /\ UNCHANGED <<recVars, now, acVars>>

\* AdaptiveSmoother.reset()
SmoothReset ==
    /\ smoother' = smoother_reset(smoother)
    /\ UNCHANGED <<recVars, now, smooth_in, smooth_out, smooth_calls, acVars>>

TickSmoother ==
    /\ \E dt \in TickSteps :
        /\ now + dt <= StartTime + MaxElapsed
        /\ now' = now + dt
    /\ UNCHANGED <<recVars, smVars, acVars>>

NextSmoother == SmoothCall \/ SmoothReset \/ TickSmoother

SpecSmoother == Init /\ [][NextSmoother]_vars

\* time.time() is the wall clock: it can be set back between two calls.
TickBack ==
    /\ \E dt \in TickSteps :
        /\ now - dt >= StartTime
        /\ now' = now - dt
    /\ UNCHANGED <<recVars, smVars, acVars>>

NextSmootherClock == SmoothCall \/ TickSmoother \/ TickBack

SpecSmootherClock == Init /\ [][NextSmootherClock]_vars

(***************************************************************************)
(* The pointer driven directly: relative moves, resets and the clock       *)
(***************************************************************************)
\* Index fingertip positions (normalised, in thousandths): a small step to
\* the left, and a hand carried across the frame between two moves.
FingerPositions == {<<500, 500>>, <<450, 500>>, <<900, 520>>}

\* ActionController.move_cursor_relative(x, y); os_ok is false when
\* pyautogui.moveTo raises.
MoveCursorRelative ==
    /\ smooth_calls < MaxCalls
    /\ \E pos \in FingerPositions, os_ok \in BOOLEAN :
        /\ last_finger_pos' = Some(pos)
        /\ IF last_finger_pos = None
           THEN UNCHANGED <<smVars, cursor>>
           ELSE \E target \in {relative_target(pos, Get(last_finger_pos), cursor)} :
                \E r \in {smoother_call(smoother, target[1], target[2], now)} :
                    /\ smoother' = r.smoother
                    /\ smooth_in' = Some(target)
                    /\ smooth_out' = Some(<<r.x, r.y>>)
                    /\ smooth_calls' = smooth_calls + 1
                    /\ cursor' = IF os_ok THEN clamp_to_screen(r.x, r.y) ELSE cursor
    /\ UNCHANGED <<recVars, now, current_mode, last_action_time, mode_switch_time,
                   fired, effects>>

\* ActionController.reset_smoother()
ResetSmoother ==
    /\ \E r \in {reset_smoother(smoother, last_finger_pos)} :
        /\ smoother' = r.smoother
        /\ last_finger_pos' = r.last_finger_pos
    /\ UNCHANGED <<recVars, now, smooth_in, smooth_out, smooth_calls, current_mode,
                   last_action_time, mode_switch_time, cursor, fired, effects>>

NextPointer == MoveCursorRelative \/ ResetSmoother \/ TickSmoother

SpecPointer == Init /\ [][NextPointer]_vars

(***************************************************************************)
(* The action methods called directly                                      *)
(***************************************************************************)
MaxElapsedActions == 240

\* A click, a window command and a volume command.
ActionsCalled == {"LEFT_CLICK", "MAXIMIZE", "VOLUME_UP"}
ActionSteps == {40}

\* ActionController.switch_mode(); fired is the method just called, effects
\* whether it went through.
SwitchMode ==
    /\ fired' = {"MODE_SWITCH"}
    /\ IF can_perform_action(last_action_time, "MODE_SWITCH", now)
       THEN /\ current_mode' = next_mode(current_mode)
            /\ last_action_time' = [last_action_time EXCEPT !["MODE_SWITCH"] = now]
            /\ mode_switch_time' = now
            /\ effects' = {"MODE_SWITCH"}
       ELSE /\ effects' = {}
            /\ UNCHANGED <<current_mode, last_action_time, mode_switch_time>>
    /\ UNCHANGED <<recVars, now, smVars, last_finger_pos, cursor>>

\* left_click(), maximize_window() or volume_up(); os_ok is false when the
\* pyautogui call raises.
CallAction ==
    /\ \E action \in ActionsCalled, os_ok \in BOOLEAN :
        /\ fired' = {action}
        /\ IF performs(action, last_action_time, mode_switch_time, now, os_ok, 0)
           THEN /\ effects' = {action}
                /\ last_action_time' = [last_action_time EXCEPT ![action] = now]
           ELSE /\ effects' = {}
                /\ UNCHANGED last_action_time
    /\ UNCHANGED <<recVars, now, smVars, current_mode, mode_switch_time,
                   last_finger_pos, cursor>>

TickActions ==
    /\ \E dt \in ActionSteps :
        /\ now + dt <= StartTime + MaxElapsedActions
        /\ now' = now + dt
    /\ UNCHANGED <<recVars, smVars, acVars>>

NextActions == SwitchMode \/ CallAction \/ TickActions

SpecActions == Init /\ [][NextActions]_vars

(***************************************************************************)
(* The frame loop: process_frame on one camera frame after another         *)
(***************************************************************************)
MaxElapsedLoop == 60

IndexUpFrame ==
    [Frame(Pose(Straight, Bent, Bent, Bent),
           130, 50, 100, 100, 150, 100, 100, 30, 160, 160, -100, 300)
        EXCEPT !.index_tip = <<500, 500>>]
IndexUpMovedFrame == [IndexUpFrame EXCEPT !.index_tip = <<510, 480>>]
PeaceUprightFrame == [PeaceFrame EXCEPT !.peace_angle = 10]

LoopFrames == {OkSignFrame, PeaceUprightFrame, IndexUpFrame, IndexUpMovedFrame}
LoopInputs == {None} \cup {Some(f) : f \in LoopFrames}
FrameSteps == {10, 40}

\* The hand-detected branch of process_frame: recognize(), then the call
\* sites of the gesture it returned, read from the state recognize() left.
HandFrame(lmo, os_ok) ==
    /\ RecognizeWith(lmo)
    /\ \E gesture \in {Get(result')}, lm \in {Get(lmo)} :
        /\ \E passed \in {{s \in execute_gesture_action(current_mode, gesture) :
                              site_gate(current_state', now, s)}} :
            \E done \in {{s.action : s \in
                            {s \in passed :
                                performs(s.action, last_action_time,
                                         mode_switch_time, now, os_ok,
                                         lm.peace_angle)}}} :
                /\ fired' = passed
                /\ effects' = done
                /\ last_action_time' =
                       [a \in DOMAIN cooldowns |->
                           IF a \in done THEN now ELSE last_action_time[a]]
                /\ current_mode' = IF "MODE_SWITCH" \in done
                                   THEN next_mode(current_mode) ELSE current_mode
                /\ mode_switch_time' = IF "MODE_SWITCH" \in done THEN now
                                       ELSE mode_switch_time
        /\ IF gesture \in {"INDEX_UP", "L_SIGN"}
           THEN /\ last_finger_pos' = Some(lm.index_tip)
                /\ IF last_finger_pos = None
                   THEN UNCHANGED <<smVars, cursor>>
                   ELSE \E target \in {relative_target(lm.index_tip,
                                           Get(last_finger_pos), cursor)} :
                        \E r \in {smoother_call(smoother, target[1], target[2], now)} :
                            /\ smoother' = r.smoother
                            /\ smooth_in' = Some(target)
                            /\ smooth_out' = Some(<<r.x, r.y>>)
                            /\ smooth_calls' = smooth_calls + 1
                            /\ cursor' = IF os_ok THEN clamp_to_screen(r.x, r.y)
                                         ELSE cursor
           ELSE UNCHANGED <<smVars, cursor, last_finger_pos>>

\* The branch of process_frame for a frame without a hand.
NoHandFrame ==
    LET r == reset_smoother(smoother, last_finger_pos)
    IN  /\ smoother' = r.smoother
        /\ last_finger_pos' = r.last_finger_pos
        /\ fired' = {}
        /\ effects' = {}
        /\ UNCHANGED <<current_state, frame_count, result, run_len, smooth_in,
                       smooth_out, smooth_calls, current_mode, last_action_time,
                       mode_switch_time, cursor>>

\* One iteration of run(): process_frame on the frame the camera delivers,
\* then the time the rest of the iteration and the next read take.
ProcessFrame ==
    /\ \E lmo \in LoopInputs, os_ok \in BOOLEAN :
        /\ landmarks' = lmo
        /\ IF lmo = None THEN NoHandFrame ELSE HandFrame(lmo, os_ok)
    /\ \E dt \in FrameSteps :
        /\ now + dt <= StartTime + MaxElapsedLoop
        /\ now' = now + dt
    /\ query' = None

NextLoop == ProcessFrame

SpecLoop == Init /\ [][NextLoop]_vars

(***************************************************************************)
(* Claims on the gesture temporal state machine                            *)
(***************************************************************************)

\* C1: at every recognize() call, a frame whose gesture differs from the
\* current state's gesture (or the first frame) replaces the state by a fresh
\* one (gesture = incoming, start_time = the clock at that frame,
\* stable_frames = 1), however long the previous gesture lasted; a frame of
\* the same gesture adds exactly 1 to stable_frames and leaves gesture and
\* start_time alone.
C1_TransitionRule ==
    [][frame_count' # frame_count =>
        LET g == Get(result')
        IN  IF current_state # None /\ Get(current_state).gesture = g
            THEN current_state' =
                    Some([Get(current_state) EXCEPT !.stable_frames = @ + 1])
            ELSE current_state' = Some(GestureState(g, now', 1))]_vars

\* A transition at the third frame or later, after the clock has advanced.
C1_Witness ==
    /\ current_state # None
    /\ frame_count >= 3
    /\ Get(current_state).stable_frames = 1
    /\ Get(current_state).start_time = now
    /\ now > StartTime

\* C3 as stated: for explicit f >= 0 and d >= 0, is_gesture_ready(f, d) is
\* true iff stable_frames >= f and now - start_time >= d.
C3_ReadyIffBoth ==
    (query # None /\ current_state # None
        /\ Get(query).min_frames # None /\ Get(query).min_duration # None)
    => (Get(query).ready <=>
            /\ Get(current_state).stable_frames >= Get(Get(query).min_frames)
            /\ now - Get(current_state).start_time
                   >= Get(Get(query).min_duration))

\* C4: after N consecutive recognize() calls on the identical landmark set,
\* begun on a fresh recognizer or right after a frame of another gesture,
\* stable_frames = N and the gesture is the one that landmark set classifies
\* as.
C4_IdenticalRun ==
    run_len > 0 =>
        /\ current_state # None
        /\ Get(current_state).stable_frames = run_len
        /\ Get(current_state).gesture = recognize_gesture(landmarks)
        /\ result = Some(Get(current_state).gesture)

\* A run of three identical frames of a hand, begun after another gesture.
C4_Witness ==
    /\ run_len = 3
    /\ frame_count > run_len
    /\ landmarks # None

(***************************************************************************)
(* Claims on the classifier                                                *)
(***************************************************************************)

\* The documented detection priority.
RuleOrder == <<"OK_SIGN", "CALL_ME", "L_SIGN", "ROCK_SIGN", "PINCH_MIDDLE",
               "PEACE_SIGN", "RING_CURL", "MIDDLE_CURL", "PINKY_CURL",
               "OPEN_PALM", "INDEX_UP", "GRAB">>

\* Whether the rule of gesture g matches frame lm.
RuleMatches(g, lm) ==
    LET fingers == get_finger_states(lm)
        curled == get_finger_curl_states(lm)
        distances == get_finger_distances(lm)
    IN  CASE g = "OK_SIGN" -> is_ok_sign(lm, fingers, distances)
          [] g = "CALL_ME" -> is_call_me(fingers, curled)
          [] g = "L_SIGN" -> is_l_sign(lm, fingers, curled)
          [] g = "ROCK_SIGN" -> is_rock_sign(lm, fingers, curled)
          [] g = "PINCH_MIDDLE" -> is_pinch_middle(fingers, distances)
          [] g = "PEACE_SIGN" -> is_peace_sign(fingers, curled)
          [] g = "RING_CURL" -> is_ring_curl(fingers, curled)
          [] g = "MIDDLE_CURL" -> is_middle_curl(fingers, curled)
          [] g = "PINKY_CURL" -> is_pinky_curl(fingers, curled)
          [] g = "OPEN_PALM" -> is_open_palm(fingers)
          [] g = "INDEX_UP" -> is_index_up(lm, fingers)
          [] g = "GRAB" -> is_grab(fingers, curled)

MatchingRules(lm) == {i \in DOMAIN RuleOrder : RuleMatches(RuleOrder[i], lm)}

\* C6: with a hand present recognize() returns the gesture of the first rule
\* of the fixed order whose predicate holds, NONE when none holds (a later
\* rule never preempts an earlier match), and each call updates the state
\* machine exactly once.
C6_FirstMatchWins ==
    (result # None /\ landmarks # None) =>
        LET m == MatchingRules(Get(landmarks))
            g == Get(result)
        IN  /\ m = {} => g = "NONE"
            /\ m # {} => /\ g \in Gesture \ {"NONE"}
                         /\ \E i \in m : /\ RuleOrder[i] = g
                                         /\ \A j \in m : i <= j
            /\ current_state = Some(GestureState(g, now, frame_count))

\* A frame that several rules match, classified.
C6_Witness ==
    /\ result # None
    /\ landmarks # None
    /\ Cardinality(MatchingRules(Get(landmarks))) >= 3
    /\ frame_count = 1

\* C9 as stated: whenever the thumb-index distance is 0 and middle, ring and
\* pinky are extended, recognize() returns OK_SIGN (and so never
\* PINCH_MIDDLE), whatever the thumb-middle distance.
C9_CoincidentTipsOk ==
    (result # None /\ landmarks # None) =>
        LET lm == Get(landmarks)
        IN  (/\ lm.thumb_index = 0
             /\ is_finger_extended(lm, "middle")
             /\ is_finger_extended(lm, "ring")
             /\ is_finger_extended(lm, "pinky")) => Get(result) = "OK_SIGN"

\* C10 as stated: a single-curl gesture is returned only when the named
\* finger is curled and not extended, no other non-thumb finger is curled,
\* and the four other fingers (thumb included) are extended; RING_CURL,
\* MIDDLE_CURL, PINKY_CURL are resolved in that order.
SingleCurlFinger(g) ==
    CASE g = "RING_CURL" -> "ring"
      [] g = "MIDDLE_CURL" -> "middle"
      [] g = "PINKY_CURL" -> "pinky"

C10_ExactlyOneCurled ==
    (result # None /\ landmarks # None
        /\ Get(result) \in {"RING_CURL", "MIDDLE_CURL", "PINKY_CURL"}) =>
        LET lm == Get(landmarks)
            named == SingleCurlFinger(Get(result))
        IN  /\ is_finger_curled(lm, named)
            /\ ~is_finger_extended(lm, named)
            /\ \A f \in Fingers4 \ {named} :
                  is_finger_extended(lm, f) /\ ~is_finger_curled(lm, f)
            /\ is_thumb_extended(lm)
            /\ Get(result) = "MIDDLE_CURL" =>
                  ~RuleMatches("RING_CURL", lm)
            /\ Get(result) = "PINKY_CURL" =>
                  ~RuleMatches("RING_CURL", lm) /\ ~RuleMatches("MIDDLE_CURL", lm)

(***************************************************************************)
(* Claims on the pointer smoother                                          *)
(***************************************************************************)

\* C8: on a freshly constructed smoother and after reset() following any
\* calls, the next call returns its input (x, y) exactly, positions inside
\* the edge margin included, and seeds both axis filters, the previous
\* output and the history with it.
C8_FirstSampleUnchanged ==
    [][(smooth_calls' # smooth_calls /\ smoother.history = <<>>) =>
        LET p == Get(smooth_in')
        IN  /\ smooth_out' = Some(p)
            /\ smoother'.euro_x.x_prev = Some(p[1])
            /\ smoother'.euro_y.x_prev = Some(p[2])
            /\ smoother'.euro_x.t_prev = Some(now)
            /\ smoother'.euro_y.t_prev = Some(now)
            /\ smoother'.prev_x = Some(p[1])
            /\ smoother'.prev_y = Some(p[2])
            /\ smoother'.history = <<p>>]_vars

\* A first sample inside the edge margin, taken after a reset that followed
\* two earlier calls, and unlike the output before the reset.
C8_Witness ==
    /\ smooth_calls = 3
    /\ Len(smoother.history) = 1
    /\ smooth_out = smooth_in
    /\ is_near_edge(Get(smooth_in)[1], Get(smooth_in)[2]).near
    /\ smoother.euro_x.freq # EURO_FREQ

(***************************************************************************)
(* Claims on the frame loop                                                *)
(***************************************************************************)

\* C2: a frame without a hand is fed to the state machine as NONE, so the
\* first frame with a hand after a frame without one starts a new run:
\* stable_frames is 1 and start_time is the time of that frame, also when
\* the hand shows the gesture it showed before it was lost.
C2_FreshRunAfterLoss ==
    [][(landmarks = None /\ landmarks' # None) =>
        /\ Get(current_state').stable_frames = 1
        /\ Get(current_state').start_time = now]_vars

\* C5: every call site that the frame loop fires (mode switch, clicks,
\* scroll, window, media and volume commands) fires only when
\* is_gesture_ready holds for the arguments of the site: the frame condition
\* and the duration condition both.
C5_FiredOnlyWhenReady ==
    [][\A s \in fired' :
        is_gesture_ready(current_state', now, s.min_frames,
                         Some(s.min_duration))]_vars

\* C7: a frame without a hand leaves both axis filters, the previous output
\* and the history of the smoother cleared and the relative-motion reference
\* cleared; the frame after it moves no pointer, and the first pointer
\* sample the smoother takes with its history empty is returned unfiltered.
C7_ResetOnHandLoss ==
    [][/\ (landmarks' = None /\ now' # now) =>
            /\ smoother'.euro_x.x_prev = None /\ smoother'.euro_x.dx_prev = 0
            /\ smoother'.euro_x.t_prev = None
            /\ smoother'.euro_y.x_prev = None /\ smoother'.euro_y.dx_prev = 0
            /\ smoother'.euro_y.t_prev = None
            /\ smoother'.prev_x = None /\ smoother'.prev_y = None
            /\ smoother'.history = <<>>
            /\ last_finger_pos' = None
       /\ (landmarks = None /\ now' # now) =>
            /\ smooth_calls' = smooth_calls
            /\ cursor' = cursor
       /\ (smooth_calls' # smooth_calls /\ smoother.history = <<>>) =>
            /\ smooth_out' = smooth_in'
            /\ cursor' \in {cursor, clamp_to_screen(Get(smooth_in')[1],
                                                    Get(smooth_in')[2])}]_vars

\* The pointer was moved and filtered, the hand was lost, and the first
\* sample after the hand came back moved the pointer again.
C7_Witness ==
    /\ smooth_calls = 3
    /\ Len(smoother.history) = 1
    /\ smooth_out = smooth_in
    /\ landmarks # None
    /\ last_finger_pos = Some(Get(landmarks).index_tip)
    /\ cursor # StartCursor

(***************************************************************************)
(* Claims on the rules of single gestures                                  *)
(***************************************************************************)

\* C11 as stated: whenever recognize() returns ROCK_SIGN, index and pinky
\* are extended, middle and ring are curled, and the thumb finger state is
\* not extended.
C11_RockThumbNotExtended ==
    (result = Some("ROCK_SIGN") /\ landmarks # None) =>
        LET lm == Get(landmarks)
        IN  /\ is_finger_extended(lm, "index")
            /\ is_finger_extended(lm, "pinky")
            /\ is_finger_curled(lm, "middle")
            /\ is_finger_curled(lm, "ring")
            /\ ~is_thumb_extended(lm)

\* C12 as stated: whenever recognize() returns L_SIGN, thumb and index are
\* extended, middle, ring and pinky are curled, the thumb IP angle is above
\* 155 degrees, the thumb tip is more than 0.12 from the index MCP and more
\* than 0.15 from the wrist, all three strictly.
C12_LSignStrictThresholds ==
    (result = Some("L_SIGN") /\ landmarks # None) =>
        LET lm == Get(landmarks)
        IN  /\ is_thumb_extended(lm)
            /\ is_finger_extended(lm, "index")
            /\ is_finger_curled(lm, "middle")
            /\ is_finger_curled(lm, "ring")
            /\ is_finger_curled(lm, "pinky")
            /\ lm.thumb_angle2 > L_SIGN_THUMB_ANGLE
            /\ lm.thumb_to_index_mcp > L_SIGN_THUMB_EXTENSION
            /\ lm.thumb_to_wrist > L_SIGN_WRIST_DISTANCE

\* The frames of C13: thumb and index joints straight, middle, ring and
\* pinky curled, thumb tip 0.05 from the index MCP.
CloseThumbFrame(lm) ==
    /\ lm.thumb_angle > EXTENDED_ANGLE
    /\ is_finger_extended(lm, "index")
    /\ is_finger_curled(lm, "middle")
    /\ is_finger_curled(lm, "ring")
    /\ is_finger_curled(lm, "pinky")
    /\ lm.thumb_to_index_mcp = 50

CanonicalPalmFrame(lm) ==
    /\ \A f \in Fingers4 : lm.pip[f] = 180 /\ lm.dip[f] = 180
    /\ lm.thumb_angle = 180
    /\ lm.thumb_to_index_mcp > THUMB_PALM_DISTANCE
    /\ lm.thumb_index >= OK_SIGN_THRESHOLD
    /\ lm.thumb_middle >= PINCH_THRESHOLD

\* C14: recognize() returns OPEN_PALM for every canonical open palm, and
\* returns OPEN_PALM only for frames in which all five fingers are extended.
C14_OpenPalm ==
    (result # None /\ landmarks # None) =>
        LET lm == Get(landmarks)
        IN  /\ CanonicalPalmFrame(lm) => Get(result) = "OPEN_PALM"
            /\ Get(result) = "OPEN_PALM" =>
                  /\ is_thumb_extended(lm)
                  /\ \A f \in Fingers4 : is_finger_extended(lm, f)

\* A canonical open palm on the pinch thresholds, classified.
C14_Witness ==
    /\ result = Some("OPEN_PALM")
    /\ landmarks # None
    /\ CanonicalPalmFrame(Get(landmarks))
    /\ Get(landmarks).thumb_index = OK_SIGN_THRESHOLD
    /\ Get(landmarks).thumb_middle = PINCH_THRESHOLD

\* C15 as stated: whenever recognize() returns INDEX_UP, index is extended,
\* middle, ring and pinky are not extended, the index PIP and DIP angles the
\* rule measures are both above 140 degrees, the index tip is at most 0.02
\* below the index MCP, and the index tip is more than 0.15 from the wrist,
\* the angle and distance comparisons strict.
C15_IndexUpStrictThresholds ==
    (result = Some("INDEX_UP") /\ landmarks # None) =>
        LET lm == Get(landmarks)
        IN  /\ is_finger_extended(lm, "index")
            /\ ~is_finger_extended(lm, "middle")
            /\ ~is_finger_extended(lm, "ring")
            /\ ~is_finger_extended(lm, "pinky")
            /\ lm.index_pip2 > INDEX_UP_JOINT_ANGLE
            /\ lm.index_dip2 > INDEX_UP_JOINT_ANGLE
            /\ lm.index_tip_dy <= INDEX_UP_TIP_OFFSET
            /\ lm.index_tip_to_wrist > INDEX_UP_WRIST_DISTANCE

\* C16: with a hand present and at least 3 of the 4 non-thumb fingers
\* curled recognize() never returns NONE; and whenever it returns GRAB, at
\* least 3 of the 4 non-thumb fingers are curled and no rule before GRAB in
\* the order matches the frame.
C16_GrabCatchAll ==
    (result # None /\ landmarks # None) =>
        LET lm == Get(landmarks)
            n_curled == Cardinality({f \in Fingers4 : is_finger_curled(lm, f)})
        IN  /\ n_curled >= 3 => Get(result) # "NONE"
            /\ Get(result) = "GRAB" =>
                  /\ n_curled >= 3
                  /\ \A i \in DOMAIN RuleOrder :
                        RuleOrder[i] # "GRAB" => ~RuleMatches(RuleOrder[i], lm)

\* A frame with exactly three curled fingers and the fourth neither curled
\* nor extended, caught by GRAB.
C16_Witness ==
    /\ result = Some("GRAB")
    /\ landmarks # None
    /\ Cardinality({f \in Fingers4 : is_finger_curled(Get(landmarks), f)}) = 3
    /\ \E f \in Fingers4 : /\ ~is_finger_curled(Get(landmarks), f)
                           /\ ~is_finger_extended(Get(landmarks), f)

(***************************************************************************)
(* Claims on recognize() and the queries                                   *)
(***************************************************************************)

\* C17: with no landmark set recognize() returns NONE and feeds NONE to the
\* state machine: a change to NONE starts a run (stable_frames 1, start_time
\* the clock of the call), a repeated NONE increments stable_frames and
\* keeps start_time; the call counts as a frame.
C17_NoHandIsNone ==
    [][(frame_count' # frame_count /\ landmarks' = None) =>
        /\ result' = Some("NONE")
        /\ frame_count' = frame_count + 1
        /\ current_state' =
              IF current_state # None /\ Get(current_state).gesture = "NONE"
              THEN Some(GestureState("NONE", Get(current_state).start_time,
                                     Get(current_state).stable_frames + 1))
              ELSE Some(GestureState("NONE", now, 1))]_vars

\* A hand was seen, then lost at a later time for two frames.
C17_Witness ==
    /\ landmarks = None
    /\ result = Some("NONE")
    /\ frame_count = 3
    /\ current_state # None
    /\ Get(current_state).stable_frames = 2
    /\ Get(current_state).start_time > StartTime

\* The landmarks _is_l_sign, _is_rock_sign and _is_index_up look up.
LSignLookups == {THUMB_TIP, THUMB_IP, THUMB_MCP, INDEX_MCP, WRIST}
RockLookups == {THUMB_TIP, THUMB_IP, THUMB_MCP, MIDDLE_MCP, INDEX_MCP, WRIST,
                INDEX_TIP, PINKY_TIP, INDEX_PIP, INDEX_DIP}
IndexUpLookups == {INDEX_TIP, INDEX_MCP, INDEX_PIP, INDEX_DIP, WRIST}

C19_ResultOfLandmarksOnly ==
    result # None => Get(result) = recognize_gesture(landmarks)

\* A frame that a recognizer without history names OK_SIGN, classified after
\* two other frames, a change of gesture and a later clock reading.
C19_Witness ==
    /\ landmarks = Some(OkSignFrame)
    /\ result = Some("OK_SIGN")
    /\ recognize_gesture(landmarks) = "OK_SIGN"
    /\ frame_count = 3
    /\ Get(current_state).start_time > StartTime
    /\ Get(current_state).stable_frames = 1

\* C20: the gesture state changes only inside recognize(): a query
\* (is_gesture_stable, is_gesture_held_for, is_gesture_ready,
\* get_gesture_duration) and the passing of time leave gesture, start_time,
\* stable_frames and frame_count as they were.
C20_QueriesAndTimeKeepState ==
    [][(query' # None \/ now' # now) =>
          /\ current_state' = current_state
          /\ frame_count' = frame_count]_vars

\* A gesture held for two frames, queried once the clock has passed its
\* minimum duration: the state is as recognize() left it.
C20_Witness ==
    /\ query # None
    /\ current_state # None
    /\ Get(current_state).stable_frames = 2
    /\ frame_count = 2
    /\ now >= Get(current_state).start_time + MIN_GESTURE_DURATION
    /\ Get(query).held

(***************************************************************************)
(* Claims on the smoother's deadzone, edge damping and frequency           *)
(***************************************************************************)

\* C21 as stated: when the raw inputs of two consecutive calls differ on an
\* axis by less than the deadzone, the second output differs from the first
\* output on that axis by at most 30% of the raw input difference.
C21_RawDeltaDamped ==
    [][(smooth_calls' # smooth_calls /\ smoother.prev_x # None
            /\ smoother.prev_y # None /\ smooth_in # None) =>
        \A i \in {1, 2} :
            LET raw == Abs(Get(smooth_in')[i] - Get(smooth_in)[i])
                moved == Abs(Get(smooth_out')[i] - Get(smooth_out)[i])
            IN  raw < DEADZONE => 10 * moved <= DEADZONE_GAIN * raw]_vars

\* C21 amended: when the One Euro filter's value for the call differs from
\* the previous output on an axis by less than the deadzone, the output
\* moves from the previous output by at most 30% of that difference times
\* the edge damping factor of the call (1.0 away from the screen edges); it
\* does not move when the two are equal.
C21_FilteredDeltaDamped ==
    [][(smooth_calls' # smooth_calls /\ smoother.prev_x # None
            /\ smoother.prev_y # None) =>
        \E r \in {smoother_call(smoother, Get(smooth_in')[1], Get(smooth_in')[2], now)} :
            \A i \in {1, 2} :
                \E prev \in {Get(IF i = 1 THEN smoother.prev_x ELSE smoother.prev_y)} :
                    LET d == r.filtered[i] - prev
                        moved == Get(smooth_out')[i] - prev
                    IN  Abs(d) < DEADZONE =>
                            /\ 10 * 1000 * Abs(moved)
                                  <= DEADZONE_GAIN * Abs(d) * Abs(r.edge.factor)
                            /\ moved * d * r.edge.factor >= 0]_vars

\* Two calls without a reset between them, the second moving the x output by
\* a few tenths of a pixel: less than the deadzone step can let through, and
\* less than an undamped step of a deadzone or more after edge damping.
C21_Witness ==
    /\ Len(smoother.history) >= 2
    /\ LET n == Len(smoother.history)
           moved == Abs(smoother.history[n][1] - smoother.history[n - 1][1])
       IN  /\ moved > 0
           /\ 10 * moved < DEADZONE_GAIN * DEADZONE

\* The position is at least the margin fraction away from every boundary.
away_from_edges(x, y) ==
    /\ x * 100 >= EDGE_MARGIN * SCREEN_WIDTH
    /\ x * 100 <= (1000 - EDGE_MARGIN) * SCREEN_WIDTH
    /\ y * 100 >= EDGE_MARGIN * SCREEN_HEIGHT
    /\ y * 100 <= (1000 - EDGE_MARGIN) * SCREEN_HEIGHT

\* C22: the damping factor _is_near_edge returns is in [0.6, 1.0] for every
\* position a relative move hands to the smoother, on or off the screen, and
\* is 1.0 when the position is at least the margin away from every boundary.
C22_EdgeFactorInRange ==
    [][smooth_calls' # smooth_calls =>
        \E r \in {smoother_call(smoother, Get(smooth_in')[1], Get(smooth_in')[2], now)} :
            /\ r.edge.factor >= EDGE_SMOOTHING_FACTOR
            /\ r.edge.factor <= 1000
            /\ away_from_edges(r.edge_at[1], r.edge_at[2]) => r.edge.factor = 1000]_vars

\* C23: in a OneEuroFilter call after the first sample, a timestamp not
\* later than the previous one (dt <= 0) leaves the frequency as it was, a
\* later one sets it to 1 / dt; the frequency stays positive, and the sample
\* is filtered either way: the timestamp is stored and the new estimate lies
\* between the old estimate and the sample.
C23_FrequencyKeptOnStaleTimestamp ==
    [][(smooth_calls' # smooth_calls /\ smoother.euro_x.x_prev # None) =>
        \A e \in {<<smoother.euro_x, smoother'.euro_x, Get(smooth_in')[1]>>,
                  <<smoother.euro_y, smoother'.euro_y, Get(smooth_in')[2]>>} :
            LET dt == now - Get(e[1].t_prev)
                old == Get(e[1].x_prev)
                new == Get(e[2].x_prev)
            IN  /\ dt <= 0 => e[2].freq = e[1].freq
                /\ dt > 0 => e[2].freq = 10000 \div dt
                /\ e[2].freq > 0
                /\ e[2].t_prev = Some(now)
                /\ Min(old, e[3]) <= new /\ new <= Max(old, e[3])]_vars

\* Three calls: the second 0.05 s after the first, the third after the clock
\* was set back to the time of the first; the frequency is still 1 / 0.05.
C23_Witness ==
    /\ Len(smoother.history) = 3
    /\ smoother.euro_x.t_prev = Some(StartTime)
    /\ smoother.euro_x.freq = 10000 \div 5
    /\ smoother.euro_x.freq # EURO_FREQ

(***************************************************************************)
(* Claims on the action methods                                            *)
(***************************************************************************)

\* The mode after each mode in the rotation.
Rotation ==
    [CURSOR |-> "SCROLL", SCROLL |-> "WINDOW", WINDOW |-> "MEDIA", MEDIA |-> "CURSOR"]

\* C24: a switch_mode() call that is not within 0.8 s of the last successful
\* switch moves current_mode to the next mode of CURSOR -> SCROLL -> WINDOW
\* -> MEDIA -> CURSOR and starts the cooldown; a call within 0.8 s leaves
\* the mode, the recorded switch time and the cooldown as they were.
C24_ModeRotation ==
    [][(fired' = {"MODE_SWITCH"} /\ now' = now) =>
        IF now - last_action_time["MODE_SWITCH"] >= cooldowns["MODE_SWITCH"]
        THEN /\ current_mode' = Rotation[current_mode]
             /\ last_action_time'["MODE_SWITCH"] = now
             /\ mode_switch_time' = now
        ELSE /\ current_mode' = current_mode
             /\ last_action_time' = last_action_time
             /\ mode_switch_time' = mode_switch_time]_vars

\* The fourth successful switch, each made as soon as the cooldown of the one
\* before had elapsed: back at CURSOR.
C24_Witness ==
    /\ current_mode = "CURSOR"
    /\ effects = {"MODE_SWITCH"}
    /\ last_action_time["MODE_SWITCH"] = StartTime + 3 * cooldowns["MODE_SWITCH"]

C26_NoActionInSwitchWindow ==
    [][(now' = now /\ fired' # {} /\ fired' # {"MODE_SWITCH"}
            /\ now - mode_switch_time < MODE_SWITCH_COOLDOWN) =>
        effects' = {}]_vars

(***************************************************************************)
(* Claims on the life of the gesture state                                 *)
(***************************************************************************)

\* C27: before the first recognize() there is no gesture state, the three
\* boolean queries answer false for every argument and the duration is 0;
\* from the first recognize() on there is always a gesture state.
C27_StateFromFirstCall ==
    /\ frame_count = 0 =>
          /\ current_state = None
          /\ query # None =>
                /\ ~Get(query).stable
                /\ ~Get(query).held
                /\ ~Get(query).ready
                /\ Get(query).duration = 0
    /\ frame_count > 0 => current_state # None /\ Len(current_state) = 1

\* A query for a duration of 0 seconds, made before any frame and after the
\* clock has moved.
C27_Witness ==
    /\ frame_count = 0
    /\ now > StartTime
    /\ query # None
    /\ Get(query).min_duration = Some(0)
    /\ Get(query).min_frames = Some(1)

(***************************************************************************)
(* Claims on the finger flags and the counters                             *)
(***************************************************************************)

\* C28: in every frame no non-thumb finger is flagged extended and curled at
\* once.
C28_ExtendedCurledExclusive ==
    (landmarks # None /\ result # None) =>
        \A f \in Fingers4 :
            ~(get_finger_states(Get(landmarks))[f]
                /\ get_finger_curl_states(Get(landmarks))[f])

\* C29: every recognize() call adds exactly 1 to frame_count and nothing
\* else changes it; after a call stable_frames is 1 when the gesture returned
\* differs from the one the call before returned (or there was none) and one
\* more than before when it is the same, so it is the length of the current
\* run of equal results, and 1 <= stable_frames <= frame_count.
C29_CountersFollowCalls ==
    [][IF now' = now /\ query' = None
       THEN /\ frame_count' = frame_count + 1
            /\ Get(current_state').stable_frames =
                  IF result # None /\ result' = result
                  THEN Get(current_state).stable_frames + 1 ELSE 1
            /\ 1 <= Get(current_state').stable_frames
            /\ Get(current_state').stable_frames <= frame_count'
       ELSE frame_count' = frame_count /\ current_state' = current_state]_vars

\* Four calls, the last two of them returning the same gesture after a
\* different one.
C29_Witness ==
    /\ frame_count = 4
    /\ current_state # None
    /\ Get(current_state).stable_frames = 2
    /\ result = Some(Get(current_state).gesture)

\* C30: under a clock that does not go back, is_gesture_ready(f, d) turns
\* from true to false only at a recognize() call whose gesture differs from
\* the held one: never between calls and never at a call that returns the
\* same gesture; at a call with a different gesture it is false afterwards
\* whenever f > 1 or d > 0.
C30_ReadyMonotoneInRun ==
    [][\A f \in QueryFrames, d \in QueryDurations :
        LET differs == /\ frame_count' # frame_count
                       /\ current_state # None
                       /\ Get(result') # Get(current_state).gesture
        IN  /\ (is_gesture_ready(current_state, now, f, d)
                  /\ ~is_gesture_ready(current_state', now', f, d)) => differs
            /\ (differs /\ \/ f # None /\ Get(f) > 1
                           \/ d # None /\ Get(d) > 0) =>
                  ~is_gesture_ready(current_state', now', f, d)]_vars

\* A run of four frames of one gesture, ready for 3 frames and 0.15 s, and
\* queried after the fourth frame.
C30_Witness ==
    /\ current_state # None
    /\ Get(current_state).stable_frames = 4
    /\ query # None
    /\ Get(query).min_frames = Some(3)
    /\ Get(query).min_duration = Some(15)
    /\ Get(query).ready

====
